---- MODULE Spec2Model ----
(***************************************************************************)
(* Model of the brolib chat client: the response code space, the result   *)
(* wrapper and the nine request/response operations of BroChatClient.     *)
(* One invocation runs: <Op>_Call (build the url and the request, issue   *)
(* it), Transport (httpClient.Do returns an error or a response) and      *)
(* <Op>_Return (map the outcome to a result).                             *)
(***************************************************************************)
EXTENDS Integers, Sequences, FiniteSets, TLC

VARIABLES
    client,     \* the BroChatClient: [httpClient, baseUrl]
    pc,         \* "idle" | "waiting" | "replied" | "returned"
    call,       \* the invocation in progress: operation, arguments, built url
    res,        \* what httpClient.Do returned: [err, StatusCode, Body]
    result,     \* the BroChatClientResult / BroChatClientContentResult returned
    errv,       \* what result.Error() returned, once called
    requests,   \* transport requests issued by the current invocation
    bodyReads   \* decodes of the response body by the current invocation

vars == <<client, pc, call, res, result, errv, requests, bodyReads>>

----------------------------------------------------------------------------
(* Bounds *)

\* Longest list of options passed to GetUsers / GetChannelMessages.
MaxOptions == 2

----------------------------------------------------------------------------
(* Response code space: type BroChatResponseCode uint8 *)

BroChatResponseCode == 0..255

\* Server side error codes (iota)
BROCHAT_RESPONSE_CODE_UNHANDLED_ERROR == 0
BROCHAT_RESPONSE_CODE_FORBIDDEN_ERROR == 1
BROCHAT_RESPONSE_CODE_VALIDATION_ERROR == 2
BROCHAT_RESPONSE_CODE_REQUEST_PARSE_ERROR == 3
BROCHAT_RESPONSE_CODE_NOT_FOUND_ERROR == 4
BROCHAT_RESPONSE_CODE_DATA_CONFLICT_ERROR == 5
BROCHAT_RESPONSE_CODE_INVALID_OPERATION == 6
BROCHAT_RESPONSE_CODE_UNAUTHORIZED_ERROR == 7

\* Client side error codes (iota + 64)
\* Mutant: the client block numbered from iota, without its offset.
Mut_INVALID_HOST_ADDRESS_NoOffset == 0 + 0
BROCHAT_RESPONSE_CODE_INVALID_HOST_ADDRESS == 0 + 64
BROCHAT_RESPONSE_CODE_CONNECTION_TIMEOUT_ERROR == 1 + 64
BROCHAT_RESPONSE_CODE_REQUEST_FORMATTING_ERROR == 2 + 64
BROCHAT_RESPONSE_CODE_UNEXEPECTED_RESPONSE_ERROR == 3 + 64
BROCHAT_RESPONSE_CODE_GENERIC_REQUEST_ERROR == 4 + 64
BROCHAT_RESPONSE_CODE_GENERIC_CONNECTION_ERROR == 5 + 64

\* Success codes (iota + 128)
BROCHAT_RESPONSE_CODE_SUCCESS == 0 + 128
BROCHAT_RESPONSE_CODE_NO_CONTENT == 1 + 128

\* The three const blocks, name by name.
ServerSideCodes ==
    [ UNHANDLED_ERROR     |-> BROCHAT_RESPONSE_CODE_UNHANDLED_ERROR,
      FORBIDDEN_ERROR     |-> BROCHAT_RESPONSE_CODE_FORBIDDEN_ERROR,
      VALIDATION_ERROR    |-> BROCHAT_RESPONSE_CODE_VALIDATION_ERROR,
      REQUEST_PARSE_ERROR |-> BROCHAT_RESPONSE_CODE_REQUEST_PARSE_ERROR,
      NOT_FOUND_ERROR     |-> BROCHAT_RESPONSE_CODE_NOT_FOUND_ERROR,
      DATA_CONFLICT_ERROR |-> BROCHAT_RESPONSE_CODE_DATA_CONFLICT_ERROR,
      INVALID_OPERATION   |-> BROCHAT_RESPONSE_CODE_INVALID_OPERATION,
      UNAUTHORIZED_ERROR  |-> BROCHAT_RESPONSE_CODE_UNAUTHORIZED_ERROR ]

ClientSideCodes ==
    [ INVALID_HOST_ADDRESS       |-> BROCHAT_RESPONSE_CODE_INVALID_HOST_ADDRESS,
      CONNECTION_TIMEOUT_ERROR   |-> BROCHAT_RESPONSE_CODE_CONNECTION_TIMEOUT_ERROR,
      REQUEST_FORMATTING_ERROR   |-> BROCHAT_RESPONSE_CODE_REQUEST_FORMATTING_ERROR,
      UNEXEPECTED_RESPONSE_ERROR |-> BROCHAT_RESPONSE_CODE_UNEXEPECTED_RESPONSE_ERROR,
      GENERIC_REQUEST_ERROR      |-> BROCHAT_RESPONSE_CODE_GENERIC_REQUEST_ERROR,
      GENERIC_CONNECTION_ERROR   |-> BROCHAT_RESPONSE_CODE_GENERIC_CONNECTION_ERROR ]

SuccessCodes ==
    [ SUCCESS    |-> BROCHAT_RESPONSE_CODE_SUCCESS,
      NO_CONTENT |-> BROCHAT_RESPONSE_CODE_NO_CONTENT ]

\* Value of a function's range.
Range(f) == { f[x] : x \in DOMAIN f }

----------------------------------------------------------------------------
(* Result wrapper *)

\* A Go nil error.
Nil == "<nil>"

makeBroChatClientResult(code, details) ==
    [ ResponseCode |-> code, ErrorDetails |-> details ]

makeBroChatClientContentResult(code, content, details) ==
    [ ResponseCode |-> code, ErrorDetails |-> details, Content |-> content ]

\* BroChatClientResult.Error: nil above the plain success code, otherwise
\* the message of the switch (the details are not used).
Error(c) ==
    IF c.ResponseCode > BROCHAT_RESPONSE_CODE_SUCCESS THEN Nil
    ELSE CASE c.ResponseCode = BROCHAT_RESPONSE_CODE_UNHANDLED_ERROR -> "an unhandled/unexpected error occured"
           [] c.ResponseCode = BROCHAT_RESPONSE_CODE_FORBIDDEN_ERROR -> "forbidden operation"
           [] c.ResponseCode = BROCHAT_RESPONSE_CODE_VALIDATION_ERROR -> "validation error"
           [] c.ResponseCode = BROCHAT_RESPONSE_CODE_REQUEST_PARSE_ERROR -> "request body parsing error"
           [] c.ResponseCode = BROCHAT_RESPONSE_CODE_NOT_FOUND_ERROR -> "resource not found"
           [] c.ResponseCode = BROCHAT_RESPONSE_CODE_DATA_CONFLICT_ERROR -> "data conflict"
           [] c.ResponseCode = BROCHAT_RESPONSE_CODE_INVALID_OPERATION -> "invalid operation"
           [] c.ResponseCode = BROCHAT_RESPONSE_CODE_INVALID_HOST_ADDRESS -> "invalid host address"
           [] c.ResponseCode = BROCHAT_RESPONSE_CODE_CONNECTION_TIMEOUT_ERROR -> "connection timeout"
           [] c.ResponseCode = BROCHAT_RESPONSE_CODE_REQUEST_FORMATTING_ERROR -> "request formatting error"
           [] c.ResponseCode = BROCHAT_RESPONSE_CODE_UNEXEPECTED_RESPONSE_ERROR -> "server response parsing error"
           [] c.ResponseCode = BROCHAT_RESPONSE_CODE_GENERIC_REQUEST_ERROR -> "generic request error"
           [] c.ResponseCode = BROCHAT_RESPONSE_CODE_GENERIC_CONNECTION_ERROR -> "generic connection error"
           [] OTHER -> "unknown error"

----------------------------------------------------------------------------
(* JSON bodies and encoding/json decoding, as the operations use it *)

\* A response body is a byte stream holding no value at all (Decode
\* returns io.EOF), bytes that are not JSON (a syntax error), or one JSON
\* value.
BodyEmpty == [ t |-> "eof" ]
BodyNotJson == [ t |-> "syntax" ]
JNull == [ t |-> "null" ]
JNum(n) == [ t |-> "num", num |-> n ]
JStr(s) == [ t |-> "str", str |-> s ]
JArr(a) == [ t |-> "arr", arr |-> a ]
JObj(o) == [ t |-> "obj", obj |-> o ]

\* Go types a body is decoded into.  A struct type lists its fields with
\* their json tag.
TString == [ k |-> "string" ]
TUint8 == [ k |-> "uint8" ]
TSlice(e) == [ k |-> "slice", elem |-> e ]
TStruct(fs) == [ k |-> "struct", fields |-> fs ]

\* The zero value of a Go type (a nil and an empty slice both have length 0
\* and are both <<>> here).
RECURSIVE Zero(_)
Zero(typ) ==
    CASE typ.k = "string" -> ""
      [] typ.k = "uint8"  -> 0
      [] typ.k = "slice"  -> << >>
      [] typ.k = "struct" -> [ f \in DOMAIN typ.fields |-> Zero(typ.fields[f].typ) ]

\* json.Unmarshal of one JSON value into a Go value cur of type typ:
\* [err, val].  null leaves scalars and structs alone and empties a slice;
\* a value of the wrong JSON kind, or a number that does not fit, is an
\* UnmarshalTypeError: it is remembered, the rest of the input is still
\* decoded, and the error is returned at the end; object keys that match no
\* field are skipped.  An object is the sequence of its <<key, value>>
\* members in input order.
RECURSIVE Unmarshal(_, _, _)
RECURSIVE UnmarshalObject(_, _, _)
UnmarshalObject(typ, members, cur) ==
    IF members = << >> THEN [ err |-> FALSE, val |-> cur ]
    ELSE LET key  == Head(members)[1]
             jv   == Head(members)[2]
             fs   == { f \in DOMAIN typ.fields : typ.fields[f].key = key }
             step == IF fs = {} THEN [ err |-> FALSE, val |-> cur ]
                     ELSE LET f == CHOOSE g \in fs : TRUE
                              r == Unmarshal(typ.fields[f].typ, jv, cur[f])
                          IN [ err |-> r.err, val |-> [ cur EXCEPT ![f] = r.val ] ]
             rest == UnmarshalObject(typ, Tail(members), step.val)
         IN [ err |-> step.err \/ rest.err, val |-> rest.val ]

Unmarshal(typ, j, cur) ==
    IF j.t = "null"
    THEN [ err |-> FALSE, val |-> IF typ.k = "slice" THEN << >> ELSE cur ]
    ELSE CASE typ.k = "string" ->
                IF j.t = "str" THEN [ err |-> FALSE, val |-> j.str ]
                ELSE [ err |-> TRUE, val |-> cur ]
           [] typ.k = "uint8" ->
                IF j.t = "num" /\ j.num \in 0..255
                THEN [ err |-> FALSE, val |-> j.num ]
                ELSE [ err |-> TRUE, val |-> cur ]
           [] typ.k = "slice" ->
                IF j.t = "arr"
                THEN LET rs == [ i \in 1..Len(j.arr) |->
                                   Unmarshal(typ.elem, j.arr[i], Zero(typ.elem)) ]
                     IN [ err |-> \E i \in 1..Len(j.arr) : rs[i].err,
                          val |-> [ i \in 1..Len(j.arr) |-> rs[i].val ] ]
                ELSE [ err |-> TRUE, val |-> cur ]
           [] typ.k = "struct" ->
                IF j.t = "obj" THEN UnmarshalObject(typ, j.obj, cur)
                ELSE [ err |-> TRUE, val |-> cur ]

\* json.NewDecoder(body).Decode(&cur)
Decode(typ, body, cur) ==
    IF body.t \in { "eof", "syntax" }
    THEN [ err |-> TRUE, val |-> cur ]
    ELSE Unmarshal(typ, body, cur)

\* Content types (the fields the model keeps of each struct).
UserInfo == TStruct([ Id       |-> [ key |-> "id", typ |-> TString ],
                      Username |-> [ key |-> "username", typ |-> TString ] ])
User == TStruct([ Id       |-> [ key |-> "id", typ |-> TString ],
                  Username |-> [ key |-> "username", typ |-> TString ] ])
Channel == TStruct([ Id   |-> [ key |-> "id", typ |-> TString ],
                     Type |-> [ key |-> "type", typ |-> TUint8 ] ])
Room == TStruct([ Id   |-> [ key |-> "id", typ |-> TString ],
                  Name |-> [ key |-> "name", typ |-> TString ] ])
ChatMessage == TStruct([ Id      |-> [ key |-> "id", typ |-> TString ],
                         Content |-> [ key |-> "content", typ |-> TString ] ])

\* The server error body: a response code and detail strings.
BroChatError ==
    TStruct([ Code         |-> [ key |-> "response_code", typ |-> TUint8 ],
              ErrorDetails |-> [ key |-> "error_details", typ |-> TSlice(TString) ] ])

----------------------------------------------------------------------------
(* URLs and query parameters *)

\* Resource paths, segment by segment.
GET_USER_URL_SUFFIX == << "api", "brochat", "user" >>
GET_USERS_URL_SUFFIX == << "api", "brochat", "users" >>
GET_CHANNEL_URL_SUFFIX == << "api", "brochat", "channels", ":channelId" >>
GET_CHANNEL_MESSAGES_URL_SUFFIX == << "api", "brochat", "channels", ":channelId", "messages" >>
SEND_FRIEND_REQUEST_URL_SUFFIX == << "api", "brochat", "friends", "send-friend-request" >>
ACCEPT_FRIEND_REQUEST_URL_SUFFIX == << "api", "brochat", "friends", "accept-friend-request" >>
GET_ROOMS_URL_SUFFIX == << "api", "brochat", "rooms" >>
CREATE_ROOM_URL_SUFFIX == << "api", "brochat", "rooms" >>
JOIN_ROOM_URL_SUFFIX == << "api", "brochat", "rooms", ":roomId", "join" >>

\* strings.Replace(s, old, new, 1): the first occurrence only.
RECURSIVE stringsReplace1(_, _, _)
stringsReplace1(s, old, new) ==
    IF s = << >> THEN << >>
    ELSE IF Head(s) = old THEN << new >> \o Tail(s)
    ELSE << Head(s) >> \o stringsReplace1(Tail(s), old, new)

\* Texts url.Parse rejects: ":8080" has no scheme before its colon, "%zz"
\* is an invalid escape.
MalformedUrlText == { ":8080", "%zz" }

\* url.Parse of a base address, and of a path given by its segments.
urlParseFails(rawURL) == rawURL \in MalformedUrlText
urlParsePathFails(suffix) == \E i \in 1..Len(suffix) : suffix[i] \in MalformedUrlText

queryParam(key, value) == [ key |-> key, value |-> value ]

\* url.Values.Set on a query held as a set of <<key, value>> pairs.
qSet(q, key, value) == { kv \in q : kv[1] # key } \cup { << key, value >> }

\* The loop of buildUrl over queryParams.
RECURSIVE setParams(_, _)
setParams(q, queryParams) ==
    IF queryParams = << >> THEN q
    ELSE LET param == Head(queryParams)
         IN setParams(IF param.key # "" /\ param.value # ""
                      THEN qSet(q, param.key, param.value) ELSE q,
                      Tail(queryParams))

\* The url "".
EmptyUrl == [ base |-> "", path |-> << >>, query |-> {} ]

\* Mutant: a key that is already set keeps its first value.
Mut_buildUrl_FirstWins(baseUrl, suffix, queryParams) ==
    IF urlParseFails(baseUrl) THEN [ err |-> TRUE, url |-> EmptyUrl ]
    ELSE IF urlParsePathFails(suffix) THEN [ err |-> TRUE, url |-> EmptyUrl ]
    ELSE [ err |-> FALSE,
           url |-> [ base  |-> baseUrl,
                     path  |-> suffix,
                     query |-> { << queryParams[i].key, queryParams[i].value >> :
                                   i \in { j \in 1..Len(queryParams) :
                                             /\ queryParams[j].key # ""
                                             /\ queryParams[j].value # ""
                                             /\ \A k \in 1..(j - 1) :
                                                   \/ queryParams[k].key # queryParams[j].key
                                                   \/ queryParams[k].value = "" } } ] ]

\* Mutant: only the key is tested, an empty value is set like any other.
Mut_buildUrl_KeepsEmptyValues(baseUrl, suffix, queryParams) ==
    IF urlParseFails(baseUrl) THEN [ err |-> TRUE, url |-> EmptyUrl ]
    ELSE IF urlParsePathFails(suffix) THEN [ err |-> TRUE, url |-> EmptyUrl ]
    ELSE [ err |-> FALSE,
           url |-> [ base  |-> baseUrl,
                     path  |-> suffix,
                     query |-> { << queryParams[i].key, queryParams[i].value >> :
                                   i \in { j \in 1..Len(queryParams) :
                                             /\ queryParams[j].key # ""
                                             /\ \A k \in (j + 1)..Len(queryParams) :
                                                   queryParams[k].key # queryParams[j].key } } ] ]

\* buildUrl: [err, url]; the resolved url is the base, the path of the
\* suffix and the query.
buildUrl(baseUrl, suffix, queryParams) ==
    IF urlParseFails(baseUrl) THEN [ err |-> TRUE, url |-> EmptyUrl ]
    ELSE IF urlParsePathFails(suffix) THEN [ err |-> TRUE, url |-> EmptyUrl ]
    ELSE [ err |-> FALSE,
           url |-> [ base  |-> baseUrl,
                     path  |-> suffix,
                     query |-> IF Len(queryParams) > 0
                               THEN setParams({}, queryParams) ELSE {} ] ]

\* strconv.FormatBool, strconv.FormatUint(_, 10)
FormatBool(b) == IF b THEN "true" ELSE "false"
FormatUint(n) == ToString(n)

\* Options: each appends one queryParam to option.values.
GetUsersOption_ExcludeSelf(value) == queryParam("exclude-self", FormatBool(value))
GetUsersOption_ExcludeFriends(value) == queryParam("before-msg", value)
GetUsersOption_UsernameFilter(value) == queryParam("username-filter", value)
GetUsersOption_Page(page) == queryParam("page", FormatUint(page))
\* Mutant: the client caps the page size at 100.
Mut_GetUsersOption_PageSize_Capped(pageSize) ==
    queryParam("page-size", FormatUint(IF pageSize > 100 THEN 100 ELSE pageSize))

GetUsersOption_PageSize(pageSize) == queryParam("page-size", FormatUint(pageSize))
GetChannelMessages_BeforeMessage(value) == queryParam("before-msg", value)
GetChannelMessages_Page(page) == queryParam("page", FormatUint(page))
GetChannelMessages_PageSize(pageSize) == queryParam("page-size", FormatUint(pageSize))

----------------------------------------------------------------------------
(* Transport outcomes and their mapping to results *)

StatusOK == 200
StatusCreated == 201
StatusNoContent == 204
StatusBadRequest == 400
StatusUnauthorized == 401
StatusForbidden == 403
StatusNotFound == 404

\* Errors httpClient.Do can return: a net.Error that timed out, a net.Error
\* that did not, an error that is no net.Error.
NoErr == "nil"
TransportErrors == { "net.Error timeout", "net.Error", "error" }
IsNetError(err) == err \in { "net.Error timeout", "net.Error" }
Timeout(err) == err = "net.Error timeout"

handleHttpRequestErrorWithContent(err, content) ==
    IF IsNetError(err) /\ Timeout(err)
    THEN makeBroChatClientContentResult(BROCHAT_RESPONSE_CODE_CONNECTION_TIMEOUT_ERROR, content, << >>)
    ELSE makeBroChatClientContentResult(BROCHAT_RESPONSE_CODE_GENERIC_CONNECTION_ERROR, content, << >>)

handleHttpRequestError(err) ==
    IF IsNetError(err) /\ Timeout(err)
    THEN makeBroChatClientResult(BROCHAT_RESPONSE_CODE_CONNECTION_TIMEOUT_ERROR, << >>)
    ELSE makeBroChatClientResult(BROCHAT_RESPONSE_CODE_GENERIC_CONNECTION_ERROR, << >>)

\* Mutant: the details of the server error body are dropped.
Mut_handleUnsuccessfulStatusCode_NoDetails(r) ==
    LET d == Decode(BroChatError, r.Body, Zero(BroChatError))
    IN IF d.err
       THEN CASE r.StatusCode = StatusUnauthorized ->
                   makeBroChatClientResult(BROCHAT_RESPONSE_CODE_UNAUTHORIZED_ERROR, << >>)
              [] r.StatusCode = StatusForbidden ->
                   makeBroChatClientResult(BROCHAT_RESPONSE_CODE_FORBIDDEN_ERROR, << >>)
              [] r.StatusCode = StatusNotFound ->
                   makeBroChatClientResult(BROCHAT_RESPONSE_CODE_NOT_FOUND_ERROR, << >>)
              [] r.StatusCode = StatusBadRequest ->
                   makeBroChatClientResult(BROCHAT_RESPONSE_CODE_VALIDATION_ERROR, << >>)
              [] OTHER ->
                   makeBroChatClientResult(BROCHAT_RESPONSE_CODE_UNHANDLED_ERROR, << >>)
       ELSE makeBroChatClientResult(d.val.Code, << >>)

\* Mutant: the status switch also maps 409 Conflict, to the data conflict
\* code.
Mut_handleUnsuccessfulStatusCode_Conflict(r) ==
    LET d == Decode(BroChatError, r.Body, Zero(BroChatError))
    IN IF d.err
       THEN CASE r.StatusCode = StatusUnauthorized ->
                   makeBroChatClientResult(BROCHAT_RESPONSE_CODE_UNAUTHORIZED_ERROR, << >>)
              [] r.StatusCode = StatusForbidden ->
                   makeBroChatClientResult(BROCHAT_RESPONSE_CODE_FORBIDDEN_ERROR, << >>)
              [] r.StatusCode = StatusNotFound ->
                   makeBroChatClientResult(BROCHAT_RESPONSE_CODE_NOT_FOUND_ERROR, << >>)
              [] r.StatusCode = StatusBadRequest ->
                   makeBroChatClientResult(BROCHAT_RESPONSE_CODE_VALIDATION_ERROR, << >>)
              [] r.StatusCode = 409 ->
                   makeBroChatClientResult(BROCHAT_RESPONSE_CODE_DATA_CONFLICT_ERROR, << >>)
              [] OTHER ->
                   makeBroChatClientResult(BROCHAT_RESPONSE_CODE_UNHANDLED_ERROR, << >>)
       ELSE makeBroChatClientResult(d.val.Code, d.val.ErrorDetails)

\* handleUnsuccessfulStatusCode: the body decoded as a BroChatError gives
\* the code and the details; a body that does not decode gives the code of
\* the status.
handleUnsuccessfulStatusCode(r) ==
    LET d == Decode(BroChatError, r.Body, Zero(BroChatError))
        serverSideErr == d.val
    IN IF d.err
       THEN CASE r.StatusCode = StatusUnauthorized ->
                   makeBroChatClientResult(BROCHAT_RESPONSE_CODE_UNAUTHORIZED_ERROR, << >>)
              [] r.StatusCode = StatusForbidden ->
                   makeBroChatClientResult(BROCHAT_RESPONSE_CODE_FORBIDDEN_ERROR, << >>)
              [] r.StatusCode = StatusNotFound ->
                   makeBroChatClientResult(BROCHAT_RESPONSE_CODE_NOT_FOUND_ERROR, << >>)
              [] r.StatusCode = StatusBadRequest ->
                   makeBroChatClientResult(BROCHAT_RESPONSE_CODE_VALIDATION_ERROR, << >>)
              [] OTHER ->
                   makeBroChatClientResult(BROCHAT_RESPONSE_CODE_UNHANDLED_ERROR, << >>)
       ELSE makeBroChatClientResult(serverSideErr.Code, serverSideErr.ErrorDetails)

handleUnsuccessfulStatusCodeWithContent(r, content) ==
    LET inner == handleUnsuccessfulStatusCode(r)
    IN [ ResponseCode |-> inner.ResponseCode,
         ErrorDetails |-> inner.ErrorDetails,
         Content      |-> content ]

----------------------------------------------------------------------------
(* Inputs *)

BaseUrls == { "http://localhost:8080", ":8080" }
AccessTokens == { "tok" }
UserIds == { "u1" }
\* Channel and room ids; "%zz" makes the path unparsable.
Ids == { "c1", "%zz" }
Statuses == { 200, 201, 204, 400, 401, 403, 404, 409, 500 }

SeqsUpTo(S, n) == UNION { [ 1..k -> S ] : k \in 0..n }

GetUsersOptions ==
    { GetUsersOption_ExcludeSelf(TRUE),
      GetUsersOption_ExcludeFriends(""), GetUsersOption_ExcludeFriends("m1"),
      GetUsersOption_UsernameFilter("bob"),
      GetUsersOption_Page(2),
      GetUsersOption_PageSize(101) }

GetChannelMessagesOptions ==
    { GetChannelMessages_BeforeMessage(""), GetChannelMessages_BeforeMessage("m1"),
      GetChannelMessages_Page(2),
      GetChannelMessages_PageSize(50), GetChannelMessages_PageSize(101) }

\* JSON objects the server may send.
UserJson == JObj(<< << "id", JStr("u1") >>, << "username", JStr("bob") >> >>)
RoomJson == JObj(<< << "id", JStr("r1") >>, << "name", JStr("den") >> >>)
ChannelJson == JObj(<< << "id", JStr("c1") >>, << "type", JNum(1) >> >>)
ErrorJson(code, details) ==
    JObj(<< << "response_code", JNum(code) >>,
            << "error_details", JArr([ i \in 1..Len(details) |-> JStr(details[i]) ]) >> >>)

Bodies ==
    { BodyEmpty, BodyNotJson, JNull, JObj(<< >>), JArr(<< >>),
      ErrorJson(4, << "d1", "d2" >>), ErrorJson(5, << "d2", "d1" >>),
      ErrorJson(129, << "d1" >>),
      JObj(<< << "response_code", JNum(300) >> >>),
      JObj(<< << "response_code", JStr("4") >> >>),
      JObj(<< << "error_details", JArr(<< JStr("d1") >>) >> >>),
      UserJson, RoomJson, ChannelJson,
      JObj(<< << "id", JStr("u1") >>, << "username", JNum(3) >> >>),
      JArr(<< UserJson >>), JArr(<< RoomJson, UserJson >>),
      JArr(<< UserJson, JNum(1) >>) }

NoResponse == [ err |-> NoErr, StatusCode |-> 0, Body |-> BodyEmpty ]
NoCall == [ op |-> "none", suffix |-> << >>, marshalErr |-> FALSE,
            newRequestErr |-> FALSE, hasContent |-> FALSE,
            req |-> [ method |-> "", url |-> EmptyUrl, authorization |-> << >> ] ]
NoResult == makeBroChatClientResult(BROCHAT_RESPONSE_CODE_UNHANDLED_ERROR, << >>)

\* The default token type used for authorization.
defaultTokenType == "Bearer"

----------------------------------------------------------------------------
(* The client and its operations *)

NewBroChatClient(httpClient, baseUrl) ==
    [ httpClient |-> httpClient, baseUrl |-> baseUrl ]

Init ==
    /\ client \in { NewBroChatClient("http.Client", b) : b \in BaseUrls }
    /\ pc = "idle"
    /\ call = NoCall
    /\ res = NoResponse
    /\ result = NoResult
    /\ errv = "uncalled"
    /\ requests = 0
    /\ bodyReads = 0

\* A result of either shape.
makeResult(hasContent, code, content) ==
    IF hasContent THEN makeBroChatClientContentResult(code, content, << >>)
    ELSE makeBroChatClientResult(code, << >>)

\* Mutant: the request body is serialized before the url is built.
Mut_request_MarshalFirst(op, method, suffix, queryParams, accessToken, hasBody, marshalErr, newRequestErr, hasContent, zero) ==
    LET u == buildUrl(client.baseUrl, suffix, queryParams)
        c == [ op |-> op, suffix |-> suffix, marshalErr |-> hasBody /\ marshalErr,
               newRequestErr |-> newRequestErr, hasContent |-> hasContent,
               req |-> [ method |-> method, url |-> u.url,
                         authorization |-> << defaultTokenType, accessToken >> ] ]
        failFast(code) ==
            /\ result' = makeResult(hasContent, code, zero)
            /\ pc' = "returned"
            /\ requests' = 0
    IN /\ pc \in { "idle", "returned" }
       /\ call' = c
       /\ res' = NoResponse
       /\ bodyReads' = 0
       /\ errv' = "uncalled"
       /\ UNCHANGED client
       /\ IF hasBody /\ marshalErr
          THEN failFast(BROCHAT_RESPONSE_CODE_REQUEST_FORMATTING_ERROR)
          ELSE IF u.err
          THEN failFast(BROCHAT_RESPONSE_CODE_INVALID_HOST_ADDRESS)
          ELSE IF newRequestErr
          THEN failFast(BROCHAT_RESPONSE_CODE_REQUEST_FORMATTING_ERROR)
          ELSE /\ pc' = "waiting"
               /\ requests' = 1
               /\ result' = NoResult

\* The first half of every operation: buildUrl, json.Marshal of the request
\* body (operations with a body), http.NewRequest, the headers, and
\* httpClient.Do.  marshalErr and newRequestErr say whether json.Marshal and
\* http.NewRequest return an error.
request(op, method, suffix, queryParams, accessToken, hasBody, marshalErr, newRequestErr, hasContent, zero) ==
    LET u == buildUrl(client.baseUrl, suffix, queryParams)
        c == [ op |-> op, suffix |-> suffix, marshalErr |-> hasBody /\ marshalErr,
               newRequestErr |-> newRequestErr, hasContent |-> hasContent,
               req |-> [ method |-> method, url |-> u.url,
                         authorization |-> << defaultTokenType, accessToken >> ] ]
        failFast(code) ==
            /\ result' = makeResult(hasContent, code, zero)
            /\ pc' = "returned"
            /\ requests' = 0
    IN /\ pc \in { "idle", "returned" }
       /\ call' = c
       /\ res' = NoResponse
       /\ bodyReads' = 0
       /\ errv' = "uncalled"
       /\ UNCHANGED client
       /\ IF u.err
          THEN failFast(BROCHAT_RESPONSE_CODE_INVALID_HOST_ADDRESS)
          ELSE IF hasBody /\ marshalErr
          THEN failFast(BROCHAT_RESPONSE_CODE_REQUEST_FORMATTING_ERROR)
          ELSE IF newRequestErr
          THEN failFast(BROCHAT_RESPONSE_CODE_REQUEST_FORMATTING_ERROR)
          ELSE /\ pc' = "waiting"
               /\ requests' = 1
               /\ result' = NoResult

\* httpClient.Do returns: an error, or a response with a status and a body.
Transport ==
    /\ pc = "waiting"
    /\ pc' = "replied"
    /\ \/ \E err \in TransportErrors :
            res' = [ err |-> err, StatusCode |-> 0, Body |-> BodyEmpty ]
       \/ \E status \in Statuses, body \in Bodies :
            res' = [ err |-> NoErr, StatusCode |-> status, Body |-> body ]
    /\ UNCHANGED << client, call, result, errv, requests, bodyReads >>

\* Mutant: a failure is remembered in the client, which stops working.
Mut_return_StickyError(r, reads) ==
    /\ result' = r
    /\ pc' = "returned"
    /\ bodyReads' = bodyReads + reads
    /\ client' = IF r.ResponseCode < BROCHAT_RESPONSE_CODE_SUCCESS
                 THEN [ client EXCEPT !.baseUrl = "" ] ELSE client
    /\ UNCHANGED << call, res, errv, requests >>

return(r, reads) ==
    /\ result' = r
    /\ pc' = "returned"
    /\ bodyReads' = bodyReads + reads
    /\ UNCHANGED << client, call, res, errv, requests >>

\* Mutant: a successful decode returns the zero content.
Mut_respondWithContent_ZeroContent(op, expected, typ, init, zero) ==
    /\ pc = "replied"
    /\ call.op = op
    /\ IF res.err # NoErr
       THEN return(handleHttpRequestErrorWithContent(res.err, zero), 0)
       ELSE IF res.StatusCode # expected
       THEN return(handleUnsuccessfulStatusCodeWithContent(res, zero), 1)
       ELSE LET d == Decode(typ, res.Body, init)
            IN IF d.err
               THEN return(makeBroChatClientContentResult(
                             BROCHAT_RESPONSE_CODE_UNEXEPECTED_RESPONSE_ERROR, zero, << >>), 1)
               ELSE return(makeBroChatClientContentResult(
                             BROCHAT_RESPONSE_CODE_SUCCESS, zero, << >>), 1)

\* Mutant: the error of the content decode is not checked.
Mut_respondWithContent_IgnoresDecodeError(op, expected, typ, init, zero) ==
    /\ pc = "replied"
    /\ call.op = op
    /\ IF res.err # NoErr
       THEN return(handleHttpRequestErrorWithContent(res.err, zero), 0)
       ELSE IF res.StatusCode # expected
       THEN return(handleUnsuccessfulStatusCodeWithContent(res, zero), 1)
       ELSE LET d == Decode(typ, res.Body, init)
            IN return(makeBroChatClientContentResult(
                        BROCHAT_RESPONSE_CODE_SUCCESS, d.val, << >>), 1)

\* Mutant: a timed-out request is issued again.
Mut_respondWithContent_RetriesTimeout(op, expected, typ, init, zero) ==
    /\ pc = "replied"
    /\ call.op = op
    /\ IF res.err # NoErr
       THEN IF Timeout(res.err) /\ requests < 3
            THEN /\ pc' = "waiting"
                 /\ requests' = requests + 1
                 /\ UNCHANGED << client, call, res, result, errv, bodyReads >>
            ELSE return(handleHttpRequestErrorWithContent(res.err, zero), 0)
       ELSE IF res.StatusCode # expected
       THEN return(handleUnsuccessfulStatusCodeWithContent(res, zero), 1)
       ELSE LET d == Decode(typ, res.Body, init)
            IN IF d.err
               THEN return(makeBroChatClientContentResult(
                             BROCHAT_RESPONSE_CODE_UNEXEPECTED_RESPONSE_ERROR, zero, << >>), 1)
               ELSE return(makeBroChatClientContentResult(
                             BROCHAT_RESPONSE_CODE_SUCCESS, d.val, << >>), 1)

\* Mutant: an empty response body crashes the operation before it returns.
Mut_respondWithContent_PanicsOnEmptyBody(op, expected, typ, init, zero) ==
    /\ pc = "replied"
    /\ call.op = op
    /\ ~(res.err = NoErr /\ res.Body = BodyEmpty)
    /\ IF res.err # NoErr
       THEN return(handleHttpRequestErrorWithContent(res.err, zero), 0)
       ELSE IF res.StatusCode # expected
       THEN return(handleUnsuccessfulStatusCodeWithContent(res, zero), 1)
       ELSE LET d == Decode(typ, res.Body, init)
            IN IF d.err
               THEN return(makeBroChatClientContentResult(
                             BROCHAT_RESPONSE_CODE_UNEXEPECTED_RESPONSE_ERROR, zero, << >>), 1)
               ELSE return(makeBroChatClientContentResult(
                             BROCHAT_RESPONSE_CODE_SUCCESS, d.val, << >>), 1)

\* Mutant: after a decode failure the partly decoded variable is returned.
Mut_respondWithContent_PartialContent(op, expected, typ, init, zero) ==
    /\ pc = "replied"
    /\ call.op = op
    /\ IF res.err # NoErr
       THEN return(handleHttpRequestErrorWithContent(res.err, zero), 0)
       ELSE IF res.StatusCode # expected
       THEN return(handleUnsuccessfulStatusCodeWithContent(res, zero), 1)
       ELSE LET d == Decode(typ, res.Body, init)
            IN IF d.err
               THEN return(makeBroChatClientContentResult(
                             BROCHAT_RESPONSE_CODE_UNEXEPECTED_RESPONSE_ERROR, d.val, << >>), 1)
               ELSE return(makeBroChatClientContentResult(
                             BROCHAT_RESPONSE_CODE_SUCCESS, d.val, << >>), 1)

\* The second half of a content-bearing operation: typ is the content type,
\* init the variable the body is decoded into, zero the content of a
\* failure.
respondWithContent(op, expected, typ, init, zero) ==
    /\ pc = "replied"
    /\ call.op = op
    /\ IF res.err # NoErr
       THEN return(handleHttpRequestErrorWithContent(res.err, zero), 0)
       ELSE IF res.StatusCode # expected
       THEN return(handleUnsuccessfulStatusCodeWithContent(res, zero), 1)
       ELSE LET d == Decode(typ, res.Body, init)
            IN IF d.err
               THEN return(makeBroChatClientContentResult(
                             BROCHAT_RESPONSE_CODE_UNEXEPECTED_RESPONSE_ERROR, zero, << >>), 1)
               ELSE return(makeBroChatClientContentResult(
                             BROCHAT_RESPONSE_CODE_SUCCESS, d.val, << >>), 1)

\* Mutant: a 204 answer is reported with the no-content success code.
Mut_respond_NoContentCode(op, expected) ==
    /\ pc = "replied"
    /\ call.op = op
    /\ IF res.err # NoErr
       THEN return(handleHttpRequestError(res.err), 0)
       ELSE IF res.StatusCode # expected
       THEN return(handleUnsuccessfulStatusCode(res), 1)
       ELSE return(makeBroChatClientResult(BROCHAT_RESPONSE_CODE_NO_CONTENT, << >>), 0)

\* The second half of SendFriendRequest and AcceptFriendRequest.
respond(op, expected) ==
    /\ pc = "replied"
    /\ call.op = op
    /\ IF res.err # NoErr
       THEN return(handleHttpRequestError(res.err), 0)
       ELSE IF res.StatusCode # expected
       THEN return(handleUnsuccessfulStatusCode(res), 1)
       ELSE return(makeBroChatClientResult(BROCHAT_RESPONSE_CODE_SUCCESS, << >>), 0)

GetUser_Call ==
    \E accessToken \in AccessTokens, userId \in UserIds, newRequestErr \in BOOLEAN :
        request("GetUser", "GET", GET_USER_URL_SUFFIX, << >>, accessToken,
                FALSE, FALSE, newRequestErr, TRUE, Zero(User))

GetUser_Return ==
    respondWithContent("GetUser", StatusOK, User, Zero(User), Zero(User))

GetUsers_Call ==
    \E accessToken \in AccessTokens, newRequestErr \in BOOLEAN,
       options \in SeqsUpTo(GetUsersOptions, MaxOptions) :
        request("GetUsers", "GET", GET_USERS_URL_SUFFIX, options, accessToken,
                FALSE, FALSE, newRequestErr, TRUE, << >>)

GetUsers_Return ==
    respondWithContent("GetUsers", StatusOK, TSlice(UserInfo), << >>, << >>)

GetChannel_Call ==
    \E accessToken \in AccessTokens, channelId \in Ids, newRequestErr \in BOOLEAN :
        request("GetChannel", "GET",
                stringsReplace1(GET_CHANNEL_URL_SUFFIX, ":channelId", channelId),
                << >>, accessToken, FALSE, FALSE, newRequestErr, TRUE, Zero(Channel))

GetChannel_Return ==
    respondWithContent("GetChannel", StatusOK, Channel, Zero(Channel), Zero(Channel))

GetChannelMessages_Call ==
    \E accessToken \in AccessTokens, channelId \in Ids, newRequestErr \in BOOLEAN,
       options \in SeqsUpTo(GetChannelMessagesOptions, MaxOptions) :
        request("GetChannelMessages", "GET",
                stringsReplace1(GET_CHANNEL_MESSAGES_URL_SUFFIX, ":channelId", channelId),
                options, accessToken, FALSE, FALSE, newRequestErr, TRUE, << >>)

GetChannelMessages_Return ==
    respondWithContent("GetChannelMessages", StatusOK, TSlice(ChatMessage), << >>, << >>)

SendFriendRequest_Call ==
    \E accessToken \in AccessTokens, marshalErr \in BOOLEAN, newRequestErr \in BOOLEAN :
        request("SendFriendRequest", "PUT", SEND_FRIEND_REQUEST_URL_SUFFIX, << >>,
                accessToken, TRUE, marshalErr, newRequestErr, FALSE, << >>)

SendFriendRequest_Return ==
    respond("SendFriendRequest", StatusNoContent)

AcceptFriendRequest_Call ==
    \E accessToken \in AccessTokens, marshalErr \in BOOLEAN, newRequestErr \in BOOLEAN :
        request("AcceptFriendRequest", "PUT", ACCEPT_FRIEND_REQUEST_URL_SUFFIX, << >>,
                accessToken, TRUE, marshalErr, newRequestErr, FALSE, << >>)

AcceptFriendRequest_Return ==
    respond("AcceptFriendRequest", StatusNoContent)

GetRooms_Call ==
    \E accessToken \in AccessTokens, newRequestErr \in BOOLEAN :
        request("GetRooms", "GET", GET_ROOMS_URL_SUFFIX, << >>, accessToken,
                FALSE, FALSE, newRequestErr, TRUE, << >>)

GetRooms_Return ==
    respondWithContent("GetRooms", StatusOK, TSlice(Room), << >>, << >>)

CreateRoom_Call ==
    \E accessToken \in AccessTokens, marshalErr \in BOOLEAN, newRequestErr \in BOOLEAN :
        request("CreateRoom", "POST", CREATE_ROOM_URL_SUFFIX, << >>, accessToken,
                TRUE, marshalErr, newRequestErr, TRUE, Zero(Room))

CreateRoom_Return ==
    respondWithContent("CreateRoom", StatusCreated, Room, Zero(Room), Zero(Room))

JoinRoom_Call ==
    \E accessToken \in AccessTokens, roomId \in Ids, newRequestErr \in BOOLEAN :
        request("JoinRoom", "PUT",
                stringsReplace1(JOIN_ROOM_URL_SUFFIX, ":roomId", roomId),
                << >>, accessToken, FALSE, FALSE, newRequestErr, FALSE, << >>)

\* Mutant: JoinRoom reports every transport error as a connection error.
Mut_JoinRoom_Return_NoTimeout ==
    /\ pc = "replied"
    /\ call.op = "JoinRoom"
    /\ IF res.err # NoErr
       THEN return(makeBroChatClientResult(
                     BROCHAT_RESPONSE_CODE_GENERIC_CONNECTION_ERROR, << >>), 0)
       ELSE IF res.StatusCode # StatusNoContent
       THEN return(handleUnsuccessfulStatusCode(res), 1)
       ELSE return(makeBroChatClientResult(BROCHAT_RESPONSE_CODE_SUCCESS, << >>), 0)

\* JoinRoom maps the transport error itself.
JoinRoom_Return ==
    /\ pc = "replied"
    /\ call.op = "JoinRoom"
    /\ IF res.err # NoErr
       THEN IF IsNetError(res.err) /\ Timeout(res.err)
            THEN return(makeBroChatClientResult(
                          BROCHAT_RESPONSE_CODE_CONNECTION_TIMEOUT_ERROR, << >>), 0)
            ELSE return(makeBroChatClientResult(
                          BROCHAT_RESPONSE_CODE_GENERIC_CONNECTION_ERROR, << >>), 0)
       ELSE IF res.StatusCode # StatusNoContent
       THEN return(handleUnsuccessfulStatusCode(res), 1)
       ELSE return(makeBroChatClientResult(BROCHAT_RESPONSE_CODE_SUCCESS, << >>), 0)

\* The caller asks the returned result for its error.
CallError ==
    /\ pc = "returned"
    /\ errv = "uncalled"
    /\ errv' = Error(result)
    /\ UNCHANGED << client, pc, call, res, result, requests, bodyReads >>

Next ==
    \/ GetUser_Call
    \/ GetUser_Return
    \/ GetUsers_Call
    \/ GetUsers_Return
    \/ GetChannel_Call
    \/ GetChannel_Return
    \/ GetChannelMessages_Call
    \/ GetChannelMessages_Return
    \/ SendFriendRequest_Call
    \/ SendFriendRequest_Return
    \/ AcceptFriendRequest_Call
    \/ AcceptFriendRequest_Return
    \/ GetRooms_Call
    \/ GetRooms_Return
    \/ CreateRoom_Call
    \/ CreateRoom_Return
    \/ JoinRoom_Call
    \/ JoinRoom_Return
    \/ Transport
    \/ CallError

Spec == Init /\ [][Next]_vars

\* The second halves of the nine operations.
Returns ==
    \/ GetUser_Return
    \/ GetUsers_Return
    \/ GetChannel_Return
    \/ GetChannelMessages_Return
    \/ SendFriendRequest_Return
    \/ AcceptFriendRequest_Return
    \/ GetRooms_Return
    \/ CreateRoom_Return
    \/ JoinRoom_Return

\* The transport eventually answers a request it was given, and an operation
\* whose request was answered runs on to its return statement.
SpecLive == Spec /\ WF_vars(Transport) /\ WF_vars(Returns)

----------------------------------------------------------------------------
(* Error() over the whole code type *)

DetailLists == { << >>, << "d1" >>, << "d1", "d2" >> }

\* Any result value: every code of the uint8 type, with details.
InitError ==
    /\ client \in { NewBroChatClient("http.Client", b) : b \in BaseUrls }
    /\ pc = "returned"
    /\ call = NoCall
    /\ res = NoResponse
    /\ result \in { makeBroChatClientResult(c, d) :
                      c \in BroChatResponseCode, d \in DetailLists }
    /\ errv = "uncalled"
    /\ requests = 0
    /\ bodyReads = 0

NextError == CallError

SpecError == InitError /\ [][NextError]_vars

----------------------------------------------------------------------------
(* Properties of the response code space and of Error() *)

\* The names of the three const blocks that carry the value c.
NamesOf(c) ==
    { << "server", n >> : n \in { m \in DOMAIN ServerSideCodes : ServerSideCodes[m] = c } }
    \cup { << "client", n >> : n \in { m \in DOMAIN ClientSideCodes : ClientSideCodes[m] = c } }
    \cup { << "success", n >> : n \in { m \in DOMAIN SuccessCodes : SuccessCodes[m] = c } }

\* C1: for every response code c in 0..255, Error() returns nil exactly when
\* c >= 128 (plain success, 128, included) and a non-nil error when c < 128.
C1_ErrorNilIffAtLeast128 ==
    errv # "uncalled" => ((errv = Nil) <=> (result.ResponseCode >= 128))

----------------------------------------------------------------------------
(* Properties of the operations *)

ContentOps == { "GetUser", "GetUsers", "GetChannel", "GetChannelMessages",
                "GetRooms", "CreateRoom" }
NoContentOps == { "SendFriendRequest", "AcceptFriendRequest", "JoinRoom" }

\* The status each operation expects.
ExpectedStatus(op) ==
    CASE op \in { "GetUser", "GetUsers", "GetChannel", "GetChannelMessages", "GetRooms" } -> 200
      [] op = "CreateRoom" -> 201
      [] op \in NoContentOps -> 204

\* The content shape of each content-bearing operation.
ContentShape(op) ==
    CASE op = "GetUser" -> User
      [] op = "GetUsers" -> TSlice(UserInfo)
      [] op = "GetChannel" -> Channel
      [] op = "GetChannelMessages" -> TSlice(ChatMessage)
      [] op = "GetRooms" -> TSlice(Room)
      [] op = "CreateRoom" -> Room

\* The generic code of a status.
GenericCode(status) ==
    CASE status = 401 -> BROCHAT_RESPONSE_CODE_UNAUTHORIZED_ERROR
      [] status = 403 -> BROCHAT_RESPONSE_CODE_FORBIDDEN_ERROR
      [] status = 404 -> BROCHAT_RESPONSE_CODE_NOT_FOUND_ERROR
      [] status = 400 -> BROCHAT_RESPONSE_CODE_VALIDATION_ERROR
      [] OTHER -> BROCHAT_RESPONSE_CODE_UNHANDLED_ERROR

\* An operation has returned after the transport answered with a response.
ReturnedAfterResponse ==
    pc = "returned" /\ requests = 1 /\ res.err = NoErr

\* The members of a JSON object body, looked up in the body itself.
HasMember(body, key) ==
    body.t = "obj" /\ \E i \in 1..Len(body.obj) : body.obj[i][1] = key
Member(body, key) ==
    body.obj[CHOOSE i \in 1..Len(body.obj) :
               /\ body.obj[i][1] = key
               /\ \A j \in 1..Len(body.obj) : body.obj[j][1] = key => j <= i][2]

\* The server error shape: a numeric code field and detail strings.
HasErrorShape(body) ==
    /\ HasMember(body, "response_code")
    /\ Member(body, "response_code").t = "num"
    /\ Member(body, "response_code").num \in BroChatResponseCode
    /\ HasMember(body, "error_details")
    /\ Member(body, "error_details").t = "arr"
    /\ Len(Member(body, "error_details").arr) >= 1
    /\ \A i \in 1..Len(Member(body, "error_details").arr) :
          Member(body, "error_details").arr[i].t = "str"

\* C3: when the response has the operation's expected status and, for a
\* content-bearing operation, the body decodes into the expected shape, the
\* result carries a success code, no error details and exactly the decoded
\* content.
C3_ExpectedStatusGivesSuccess ==
    (ReturnedAfterResponse /\ res.StatusCode = ExpectedStatus(call.op)) =>
        IF call.op \in ContentOps
        THEN LET d == Decode(ContentShape(call.op), res.Body, Zero(ContentShape(call.op)))
             IN ~d.err => /\ result.ResponseCode \in Range(SuccessCodes)
                          /\ result.ErrorDetails = << >>
                          /\ result.Content = d.val
        ELSE /\ result.ResponseCode \in Range(SuccessCodes)
             /\ result.ErrorDetails = << >>
             /\ DOMAIN result = { "ResponseCode", "ErrorDetails" }

\* C3 witness: CreateRoom answered 201 with a room body has returned that
\* room with the success code.
C3_Witness ==
    /\ ReturnedAfterResponse
    /\ call.op = "CreateRoom"
    /\ res.StatusCode = 201
    /\ res.Body = RoomJson
    /\ result.ResponseCode = BROCHAT_RESPONSE_CODE_SUCCESS
    /\ result.Content = [ Id |-> "r1", Name |-> "den" ]

\* C4: when the status is not the expected one and the body cannot be
\* decoded as a server error body, the code is that of the status alone
\* (401 unauthorized, 403 forbidden, 404 not-found, 400 validation, anything
\* else unhandled), a failure, with no details.
C4_UndecodableBodyGivesStatusCode ==
    ( /\ ReturnedAfterResponse
      /\ res.StatusCode # ExpectedStatus(call.op)
      /\ Decode(BroChatError, res.Body, Zero(BroChatError)).err )
    => /\ result.ResponseCode = GenericCode(res.StatusCode)
       /\ result.ResponseCode < 128
       /\ result.ErrorDetails = << >>

\* C4 witness: GetUser answered 409 with a body that is not JSON has
\* returned the unhandled code.
C4_Witness ==
    /\ ReturnedAfterResponse
    /\ call.op = "GetUser"
    /\ res.StatusCode = 409
    /\ res.Body = BodyNotJson
    /\ result.ResponseCode = BROCHAT_RESPONSE_CODE_UNHANDLED_ERROR

\* C5: when the status is not the expected one and the body has the server
\* error shape, the result carries exactly the code of the body and exactly
\* its detail strings in the same order, whatever the status.
C5_ErrorBodyPassedThrough ==
    ( /\ ReturnedAfterResponse
      /\ res.StatusCode # ExpectedStatus(call.op)
      /\ HasErrorShape(res.Body) )
    => /\ result.ResponseCode = Member(res.Body, "response_code").num
       /\ Len(result.ErrorDetails) = Len(Member(res.Body, "error_details").arr)
       /\ \A i \in 1..Len(result.ErrorDetails) :
             result.ErrorDetails[i] = Member(res.Body, "error_details").arr[i].str

\* C5 witness: JoinRoom answered 404 with the error body (5, d2, d1) has
\* returned code 5 with the details d2, d1.
C5_Witness ==
    /\ ReturnedAfterResponse
    /\ call.op = "JoinRoom"
    /\ res.StatusCode = 404
    /\ res.Body = ErrorJson(5, << "d2", "d1" >>)
    /\ result.ResponseCode = 5
    /\ result.ErrorDetails = << "d2", "d1" >>

\* C6: on a status that is not the expected one, a body without the server
\* error shape gives the generic code of the status, also when the body is
\* valid JSON such as an empty object.
C6_ShapelessBodyGivesStatusCode ==
    ( /\ ReturnedAfterResponse
      /\ res.StatusCode # ExpectedStatus(call.op)
      /\ ~HasErrorShape(res.Body) )
    => result.ResponseCode = GenericCode(res.StatusCode)

\* C7: for a content-bearing operation, the expected status with a body that
\* fails to decode into the content shape gives the unexpected-response code
\* 67, a failure that is no server-side code.
C7_UndecodableContentGives67 ==
    ( /\ ReturnedAfterResponse
      /\ call.op \in ContentOps
      /\ res.StatusCode = ExpectedStatus(call.op)
      /\ Decode(ContentShape(call.op), res.Body, Zero(ContentShape(call.op))).err )
    => /\ result.ResponseCode = 67
       /\ result.ResponseCode = BROCHAT_RESPONSE_CODE_UNEXEPECTED_RESPONSE_ERROR
       /\ result.ResponseCode < 128
       /\ result.ResponseCode \notin Range(ServerSideCodes)

\* C7 witness: CreateRoom answered 201 with a body that is an array, not a
\* room object, has returned code 67 and the zero room.
C7_Witness ==
    /\ ReturnedAfterResponse
    /\ call.op = "CreateRoom"
    /\ res.StatusCode = 201
    /\ res.Body = JArr(<< UserJson >>)
    /\ result.ResponseCode = 67
    /\ result.Content = Zero(Room)

\* C8: for every operation a transport error that is a timeout gives the
\* connection-timeout code and any other transport error the generic
\* connection-error code; the two differ and are failures.
C8_TimeoutDistinguished ==
    (pc = "returned" /\ requests = 1 /\ res.err # NoErr) =>
        /\ res.err = "net.Error timeout"
             => result.ResponseCode = BROCHAT_RESPONSE_CODE_CONNECTION_TIMEOUT_ERROR
        /\ res.err # "net.Error timeout"
             => result.ResponseCode = BROCHAT_RESPONSE_CODE_GENERIC_CONNECTION_ERROR
        /\ BROCHAT_RESPONSE_CODE_CONNECTION_TIMEOUT_ERROR
             # BROCHAT_RESPONSE_CODE_GENERIC_CONNECTION_ERROR
        /\ result.ResponseCode < 128

\* C8 witness: JoinRoom has returned the timeout code after a timeout.
C8_Witness ==
    /\ pc = "returned"
    /\ call.op = "JoinRoom"
    /\ res.err = "net.Error timeout"
    /\ result.ResponseCode = BROCHAT_RESPONSE_CODE_CONNECTION_TIMEOUT_ERROR

\* C9: an unparsable base address or path gives the invalid-host-address
\* code; otherwise a request body that cannot be serialized or a request
\* that cannot be constructed gives the request-formatting code; in both
\* cases the operation returns without having issued a transport request.
C9_CallerInputErrorsFailFast ==
    pc = "returned" =>
        /\ (urlParseFails(client.baseUrl) \/ urlParsePathFails(call.suffix))
             => /\ result.ResponseCode = BROCHAT_RESPONSE_CODE_INVALID_HOST_ADDRESS
                /\ requests = 0
        /\ ( /\ ~(urlParseFails(client.baseUrl) \/ urlParsePathFails(call.suffix))
             /\ (call.marshalErr \/ call.newRequestErr) )
             => /\ result.ResponseCode = BROCHAT_RESPONSE_CODE_REQUEST_FORMATTING_ERROR
                /\ requests = 0

\* C9 witness: SendFriendRequest with an unparsable base address and a
\* request body that cannot be serialized has returned the invalid host
\* address code without a request.
C9_Witness ==
    /\ pc = "returned"
    /\ call.op = "SendFriendRequest"
    /\ urlParseFails(client.baseUrl)
    /\ call.marshalErr
    /\ result.ResponseCode = BROCHAT_RESPONSE_CODE_INVALID_HOST_ADDRESS
    /\ requests = 0

\* C10: an invocation issues at most one transport request and reads the
\* response body at most once, whatever the transport outcome.
C10_NoRetry ==
    /\ requests <= 1
    /\ bodyReads <= 1
    /\ bodyReads = 1 => requests = 1 /\ res.err = NoErr

\* C10 witness: GetUser has returned after a timeout with one request
\* issued and the body never read.
C10_Witness ==
    /\ pc = "returned"
    /\ call.op = "GetUser"
    /\ res.err = "net.Error timeout"
    /\ requests = 1
    /\ bodyReads = 0
----------------------------------------------------------------------------
(* Termination, concurrency and frame *)

\* C11: provided the transport eventually returns, every invocation
\* eventually returns, and what it returns is a Result value (a code of the
\* code type, details, and the content for a content-bearing operation): no
\* transport outcome (any error, status or body, an empty body included)
\* leaves an invocation without a result.
C11_EveryInvocationReturnsOneResult ==
    /\ (pc \in { "waiting", "replied" }) ~> (pc = "returned")
    /\ [](pc = "returned" =>
            /\ result.ResponseCode \in BroChatResponseCode
            /\ DOMAIN result = IF call.hasContent
                               THEN { "ResponseCode", "ErrorDetails", "Content" }
                               ELSE { "ResponseCode", "ErrorDetails" })

\* C11 witness: GetUsers answered 404 with an empty body has returned a
\* result.
C11_Witness ==
    /\ pc = "returned"
    /\ call.op = "GetUsers"
    /\ requests = 1
    /\ res.err = NoErr
    /\ res.StatusCode = 404
    /\ res.Body = BodyEmpty
    /\ result.ResponseCode = BROCHAT_RESPONSE_CODE_NOT_FOUND_ERROR

----------------------------------------------------------------------------
(* Concurrent callers of GetChannelMessages on one client *)

\* Goroutines calling the same *BroChatClient.  What the method keeps in
\* locals (opts, url, res, the result) is one copy per caller; the client
\* is the one shared value.
NumCallers == 2
Callers == 1..NumCallers

ConcOptionLists ==
    { << >>,
      << GetChannelMessages_BeforeMessage("m1") >>,
      << GetChannelMessages_Page(2), GetChannelMessages_PageSize(50) >> }

ConcResponses ==
    { [ err |-> "net.Error timeout", StatusCode |-> 0, Body |-> BodyEmpty ],
      [ err |-> NoErr, StatusCode |-> StatusOK, Body |-> JArr(<< JObj(<< << "id", JStr("m1") >>,
                                << "content", JStr("hi") >> >>) >>) ],
      [ err |-> NoErr, StatusCode |-> StatusNotFound,
        Body |-> ErrorJson(BROCHAT_RESPONSE_CODE_NOT_FOUND_ERROR, << "d1" >>) ] }

NoConcCall == [ channelId |-> "", options |-> << >>, next |-> 1,
                opts |-> << >>, url |-> EmptyUrl ]

InitConc ==
    /\ client \in { NewBroChatClient("http.Client", b) : b \in BaseUrls }
    /\ pc = [ c \in Callers |-> "idle" ]
    /\ call = [ c \in Callers |-> NoConcCall ]
    /\ res = [ c \in Callers |-> NoResponse ]
    /\ result = [ c \in Callers |-> NoResult ]
    /\ errv = "uncalled"
    /\ requests = [ c \in Callers |-> 0 ]
    /\ bodyReads = 0

\* A caller enters GetChannelMessages: opts := option{values: []}.
Conc_Call(c) ==
    /\ pc[c] = "idle"
    /\ \E options \in ConcOptionLists :
         call' = [ call EXCEPT ![c] = [ channelId |-> "c1", options |-> options,
                                        next |-> 1, opts |-> << >>, url |-> EmptyUrl ] ]
    /\ pc' = [ pc EXCEPT ![c] = "applying" ]
    /\ UNCHANGED << client, res, result, errv, requests, bodyReads >>

\* Mutant: the options are appended to one list all callers share.
Mut_Conc_ApplyOption_Shared(c) ==
    /\ pc[c] = "applying"
    /\ call[c].next <= Len(call[c].options)
    /\ call' = [ d \in Callers |->
                   IF d = c
                   THEN [ call[d] EXCEPT !.next = @ + 1,
                            !.opts = Append(@, call[c].options[call[c].next]) ]
                   ELSE [ call[d] EXCEPT
                            !.opts = Append(@, call[c].options[call[c].next]) ] ]
    /\ UNCHANGED << client, pc, res, result, errv, requests, bodyReads >>

\* One turn of the loop "for _, opt := range options { opt(&opts) }".
Conc_ApplyOption(c) ==
    /\ pc[c] = "applying"
    /\ call[c].next <= Len(call[c].options)
    /\ call' = [ call EXCEPT ![c].next = @ + 1,
                             ![c].opts = Append(@, call[c].options[call[c].next]) ]
    /\ UNCHANGED << client, pc, res, result, errv, requests, bodyReads >>

\* buildUrl on the caller's opts.values and the client's base url, then the
\* request is handed to httpClient.Do.
Conc_Send(c) ==
    /\ pc[c] = "applying"
    /\ call[c].next > Len(call[c].options)
    /\ LET u == buildUrl(client.baseUrl,
                         stringsReplace1(GET_CHANNEL_MESSAGES_URL_SUFFIX,
                                         ":channelId", call[c].channelId),
                         call[c].opts)
       IN IF u.err
          THEN /\ result' = [ result EXCEPT ![c] = makeBroChatClientContentResult(
                                BROCHAT_RESPONSE_CODE_INVALID_HOST_ADDRESS, << >>, << >>) ]
               /\ pc' = [ pc EXCEPT ![c] = "returned" ]
               /\ UNCHANGED << call, requests >>
          ELSE /\ call' = [ call EXCEPT ![c].url = u.url ]
               /\ pc' = [ pc EXCEPT ![c] = "waiting" ]
               /\ requests' = [ requests EXCEPT ![c] = 1 ]
               /\ UNCHANGED result
    /\ UNCHANGED << client, res, errv, bodyReads >>

\* httpClient.Do answers the caller's own request.
Conc_Transport(c) ==
    /\ pc[c] = "waiting"
    /\ \E r \in ConcResponses : res' = [ res EXCEPT ![c] = r ]
    /\ pc' = [ pc EXCEPT ![c] = "replied" ]
    /\ UNCHANGED << client, call, result, errv, requests, bodyReads >>

Conc_Return(c) ==
    /\ pc[c] = "replied"
    /\ LET r == res[c]
           d == Decode(TSlice(ChatMessage), r.Body, << >>)
           out == IF r.err # NoErr
                  THEN handleHttpRequestErrorWithContent(r.err, << >>)
                  ELSE IF r.StatusCode # StatusOK
                  THEN handleUnsuccessfulStatusCodeWithContent(r, << >>)
                  ELSE IF d.err
                  THEN makeBroChatClientContentResult(
                         BROCHAT_RESPONSE_CODE_UNEXEPECTED_RESPONSE_ERROR, << >>, << >>)
                  ELSE makeBroChatClientContentResult(
                         BROCHAT_RESPONSE_CODE_SUCCESS, d.val, << >>)
       IN result' = [ result EXCEPT ![c] = out ]
    /\ pc' = [ pc EXCEPT ![c] = "returned" ]
    /\ UNCHANGED << client, call, res, errv, requests, bodyReads >>

NextConc ==
    \E c \in Callers :
        \/ Conc_Call(c)
        \/ Conc_ApplyOption(c)
        \/ Conc_Send(c)
        \/ Conc_Transport(c)
        \/ Conc_Return(c)

SpecConc == InitConc /\ [][NextConc]_vars

\* C12: under every interleaving of concurrent GetChannelMessages calls on
\* one client, the request a call sends carries the query of its own
\* options only, and the result it returns is the one its own arguments
\* and the transport outcome of its own request determine.
C12_CallsAreIndependent ==
    \A c \in Callers :
        LET u == buildUrl(client.baseUrl,
                          stringsReplace1(GET_CHANNEL_MESSAGES_URL_SUFFIX,
                                          ":channelId", call[c].channelId),
                          call[c].options)
            own == IF u.err THEN BROCHAT_RESPONSE_CODE_INVALID_HOST_ADDRESS
                   ELSE IF res[c].err # NoErr
                   THEN BROCHAT_RESPONSE_CODE_CONNECTION_TIMEOUT_ERROR
                   ELSE IF res[c].StatusCode = StatusOK
                   THEN BROCHAT_RESPONSE_CODE_SUCCESS
                   ELSE BROCHAT_RESPONSE_CODE_NOT_FOUND_ERROR
        IN /\ pc[c] \in { "waiting", "replied", "returned" } /\ ~u.err
                => call[c].url = u.url
           /\ pc[c] = "returned" =>
                /\ result[c].ResponseCode = own
                /\ result[c].Content =
                     IF own = BROCHAT_RESPONSE_CODE_SUCCESS
                     THEN << [ Id |-> "m1", Content |-> "hi" ] >> ELSE << >>
                /\ result[c].ErrorDetails =
                     IF own = BROCHAT_RESPONSE_CODE_NOT_FOUND_ERROR
                     THEN << "d1" >> ELSE << >>

\* Two calls in flight at once with different options and different
\* transport outcomes, one of them returned.
C12_Witness ==
    /\ pc[1] = "returned" /\ pc[2] = "replied"
    /\ call[1].options = << GetChannelMessages_BeforeMessage("m1") >>
    /\ call[2].options = << GetChannelMessages_Page(2), GetChannelMessages_PageSize(50) >>
    /\ call[1].url.query = { << "before-msg", "m1" >> }
    /\ call[2].url.query = { << "page", "2" >>, << "page-size", "50" >> }
    /\ result[1].ResponseCode = BROCHAT_RESPONSE_CODE_SUCCESS
    /\ res[2].StatusCode = StatusNotFound

\* C13: no operation changes the client after construction: in every step,
\* whatever the operation and its outcome, the base url and the transport
\* reference stay those the constructor stored, so a call after a failed
\* call runs on the same client as the first.
C13_ClientUnchanged ==
    /\ [][client' = client]_vars
    /\ [](\E b \in BaseUrls : client = NewBroChatClient("http.Client", b))

\* A call that failed after the transport answered, on the client as
\* constructed.
C13_Witness ==
    /\ pc = "returned" /\ requests = 1
    /\ res.err = "net.Error timeout"
    /\ result.ResponseCode = BROCHAT_RESPONSE_CODE_CONNECTION_TIMEOUT_ERROR
    /\ client = NewBroChatClient("http.Client", "http://localhost:8080")

\* C14: a content-bearing result never carries a success code together
\* with the default content value: whatever body comes with the expected
\* status (JSON null, an empty object and an empty array included), a
\* result with a success code holds content that is not the zero value of
\* its type.
C14_SuccessContentNotZero ==
    ( /\ pc = "returned"
      /\ call.op \in ContentOps
      /\ result.ResponseCode >= BROCHAT_RESPONSE_CODE_SUCCESS )
    => result.Content # Zero(ContentShape(call.op))

\* C15: every content-bearing result with a failure code holds the default
\* content value (the empty User, Channel or Room, the empty list for the
\* list operations) on every failure path: invalid host, request
\* formatting, transport error, unsuccessful status and body decode
\* failure; nothing partly decoded is returned.
C15_FailureContentIsZero ==
    ( /\ pc = "returned"
      /\ call.op \in ContentOps
      /\ result.ResponseCode < BROCHAT_RESPONSE_CODE_SUCCESS )
    => result.Content = Zero(ContentShape(call.op))

\* GetUsers answered 200 with a list whose second element is no user: the
\* decoder had filled part of the list, the result holds the empty list.
C15_Witness ==
    /\ ReturnedAfterResponse
    /\ call.op = "GetUsers"
    /\ res.StatusCode = 200
    /\ res.Body = JArr(<< UserJson, JNum(1) >>)
    /\ Decode(TSlice(UserInfo), res.Body, << >>).val # << >>
    /\ result.ResponseCode = BROCHAT_RESPONSE_CODE_UNEXEPECTED_RESPONSE_ERROR
    /\ result.Content = << >>

----------------------------------------------------------------------------
(* Properties of Error() *)

\* C16: the message mapping of Error() covers every defined failure code:
\* each of the eight server-side and six client-side codes has a message of
\* its own, and "unknown error" is the message exactly of the codes below
\* 128 outside the defined set.
C16_MessagesCoverDefinedCodes ==
    (errv # "uncalled" /\ result.ResponseCode < 128) =>
        /\ errv # Nil
        /\ errv = "unknown error" <=>
             result.ResponseCode \notin (Range(ServerSideCodes) \cup Range(ClientSideCodes))

\* C17: the error of a failure result carries the detail strings attached
\* to the result along with the description of the code: the error of a
\* failure result differs from the error of every result with the same
\* code and other details.
C17_ErrorCarriesDetails ==
    (errv # "uncalled" /\ result.ResponseCode < 128) =>
        \A d \in DetailLists \ { result.ErrorDetails } :
            Error(makeBroChatClientResult(result.ResponseCode, d)) # errv

----------------------------------------------------------------------------
(* Chat macros: IsMacro *)

\* A Go string is the sequence of its characters.
MACRO_TYPE_NONE == "none"
MACRO_TYPE_ROLL == "dice-roll"
MACRO_TYPE_FLIP == "coin-flip"
MACRO_TYPE_UNRECOGNIZED == "unrecognized"

\* strings.Split(s, sep)[0] for a one-character sep: the text before the
\* first sep, all of s when it holds none.
stringsSplitFirst(s, sep) ==
    IF \E i \in 1..Len(s) : s[i] = sep
    THEN SubSeq(s, 1, (CHOOSE i \in 1..Len(s) :
                         s[i] = sep /\ \A j \in 1..(i - 1) : s[j] # sep) - 1)
    ELSE s

stringsHasPrefix(s, prefix) ==
    Len(s) >= Len(prefix) /\ SubSeq(s, 1, Len(prefix)) = prefix

\* strings.ToLower over the letters of the inputs.
toLowerChar(ch) ==
    CASE ch = "R" -> "r" [] ch = "O" -> "o" [] ch = "L" -> "l"
      [] ch = "F" -> "f" [] ch = "I" -> "i" [] ch = "P" -> "p"
      [] ch = "H" -> "h" [] ch = "E" -> "e"
      [] OTHER -> ch
stringsToLower(s) == [ i \in 1..Len(s) |-> toLowerChar(s[i]) ]

\* Mutant: the word is compared as written, without lower-casing.
Mut_IsMacro_NoToLower(rawMacro) ==
    LET val == stringsSplitFirst(rawMacro, " ")
    IN IF ~stringsHasPrefix(val, << "/" >>)
       THEN [ isMacro |-> FALSE, macroType |-> MACRO_TYPE_NONE ]
       ELSE CASE val = << "/", "r", "o", "l", "l" >> ->
                   [ isMacro |-> TRUE, macroType |-> MACRO_TYPE_ROLL ]
              [] val = << "/", "f", "l", "i", "p" >> ->
                   [ isMacro |-> TRUE, macroType |-> MACRO_TYPE_FLIP ]
              [] OTHER ->
                   [ isMacro |-> TRUE, macroType |-> MACRO_TYPE_UNRECOGNIZED ]

\* IsMacro: the pair it returns.
IsMacro(rawMacro) ==
    LET val == stringsSplitFirst(rawMacro, " ")
    IN IF ~stringsHasPrefix(val, << "/" >>)
       THEN [ isMacro |-> FALSE, macroType |-> MACRO_TYPE_NONE ]
       ELSE CASE stringsToLower(val) = << "/", "r", "o", "l", "l" >> ->
                   [ isMacro |-> TRUE, macroType |-> MACRO_TYPE_ROLL ]
              [] stringsToLower(val) = << "/", "f", "l", "i", "p" >> ->
                   [ isMacro |-> TRUE, macroType |-> MACRO_TYPE_FLIP ]
              [] OTHER ->
                   [ isMacro |-> TRUE, macroType |-> MACRO_TYPE_UNRECOGNIZED ]

\* Chat lines: a first word followed by a tail.
MacroInputs ==
    LET MacroWords ==
            { << >>, << "/" >>,
              << "/", "r", "o", "l", "l" >>, << "/", "R", "O", "L", "L" >>,
              << "/", "R", "o", "l", "l" >>, << "/", "r", "o", "l", "l", "s" >>,
              << "/", "f", "l", "i", "p" >>, << "/", "F", "L", "I", "P" >>,
              << "/", "n", "o", "n", "s", "e", "n", "s", "e" >>,
              << "h", "e", "l", "l", "o" >>, << "r", "o", "l", "l" >> }
        MacroTails ==
            { << >>, << " " >>, << " ", "2", "d", "6" >>, << " ", " ", "2", "d", "6" >>,
              << " ", "/", "f", "l", "i", "p" >>, << " ", "w", "o", "r", "l", "d" >>,
              << "\t", "2", "d", "6" >>, << "\n", "2", "d", "6" >>,
              << "\t", " ", "2", "d", "6" >> }
    IN { w \o t : w \in MacroWords, t \in MacroTails }

InitMacro ==
    /\ client = NewBroChatClient("http.Client", "http://localhost:8080")
    /\ pc = "idle"
    /\ call \in MacroInputs
    /\ res = NoResponse
    /\ result = [ isMacro |-> FALSE, macroType |-> MACRO_TYPE_NONE ]
    /\ errv = "uncalled"
    /\ requests = 0
    /\ bodyReads = 0

IsMacro_Call ==
    /\ pc = "idle"
    /\ result' = IsMacro(call)
    /\ pc' = "returned"
    /\ UNCHANGED << client, call, res, errv, requests, bodyReads >>

NextMacro == IsMacro_Call

SpecMacro == InitMacro /\ [][NextMacro]_vars

\* The text of s before the first character of seps (all of s when it
\* holds none), and a word that is the given lower-case word up to the
\* case of its letters.
TokenBefore(s, seps) ==
    SubSeq(s, 1, CHOOSE n \in 0..Len(s) :
                   /\ \A i \in 1..n : s[i] \notin seps
                   /\ n = Len(s) \/ s[n + 1] \in seps)
UpperOf == ("r" :> "R") @@ ("o" :> "O") @@ ("l" :> "L") @@ ("f" :> "F")
           @@ ("i" :> "I") @@ ("p" :> "P")
SpellsIgnoringCase(tok, word) ==
    /\ Len(tok) = Len(word)
    /\ \A i \in 1..Len(word) :
          \/ tok[i] = word[i]
          \/ word[i] \in DOMAIN UpperOf /\ tok[i] = UpperOf[word[i]]

C19_TokenEndsAtAnyWhitespace ==
    pc = "returned" =>
        LET tok == TokenBefore(call, { " ", "\t", "\n" })
        IN /\ SpellsIgnoringCase(tok, << "/", "r", "o", "l", "l" >>)
                => result = [ isMacro |-> TRUE, macroType |-> MACRO_TYPE_ROLL ]
           /\ SpellsIgnoringCase(tok, << "/", "f", "l", "i", "p" >>)
                => result = [ isMacro |-> TRUE, macroType |-> MACRO_TYPE_FLIP ]

----------------------------------------------------------------------------
(* The query string builder: buildUrl over lists of query parameters *)

MaxParams == 3
QueryKeys == { "", "a", "b" }
QueryParamLists ==
    SeqsUpTo({ queryParam(k, v) : k \in QueryKeys, v \in { "", "x", "y" } }, MaxParams)

InitQuery ==
    /\ client = NewBroChatClient("http.Client", "http://localhost:8080")
    /\ pc = "idle"
    /\ call \in QueryParamLists
    /\ res = NoResponse
    /\ result = [ err |-> FALSE, url |-> EmptyUrl ]
    /\ errv = "uncalled"
    /\ requests = 0
    /\ bodyReads = 0

buildUrl_Call ==
    /\ pc = "idle"
    /\ result' = buildUrl(client.baseUrl, GET_USERS_URL_SUFFIX, call)
    /\ pc' = "returned"
    /\ UNCHANGED << client, call, res, errv, requests, bodyReads >>

NextQuery == buildUrl_Call

SpecQuery == InitQuery /\ [][NextQuery]_vars

\* C20: the query string builder drops every option whose key or value is
\* the empty string and emits every other option: a key is in the emitted
\* query exactly when it is not empty and some option with that key has a
\* non-empty value; no emitted parameter has an empty key or value; a key
\* is emitted once, with the value of the last such option.
C20_QueryDropsEmptyOptions ==
    pc = "returned" =>
        LET q == result.url.query
            kept(k) == { i \in 1..Len(call) : call[i].key = k /\ call[i].value # "" }
        IN /\ ~result.err
           /\ \A k \in QueryKeys :
                 (\E kv \in q : kv[1] = k) <=> (k # "" /\ kept(k) # {})
           /\ \A kv \in q :
                 /\ kv[1] # "" /\ kv[2] # ""
                 /\ \E i \in kept(kv[1]) :
                       call[i].value = kv[2] /\ \A j \in kept(kv[1]) : j <= i

\* An option with a value, then one with the same key and an empty value:
\* the first is on the wire, the second is not.
C20_Witness ==
    /\ pc = "returned"
    /\ call = << queryParam("a", "x"), queryParam("a", "") >>
    /\ result.url.query = { << "a", "x" >> }


\* C27: when several options of one call have the same query key, the
\* emitted query holds one value for that key, the value of the last option
\* in application order whose value is not empty; a later option with an
\* empty value does not clear it; and exchanging two neighbouring options
\* with different keys leaves the query unchanged.
C27_LastNonEmptyWinsAndKeysCommute ==
    pc = "returned" =>
        LET q == result.url.query
            swap(i) == [ call EXCEPT ![i] = call[i + 1], ![i + 1] = call[i] ]
        IN /\ \A kv \in q, kw \in q : kv[1] = kw[1] => kv = kw
           /\ \A i \in 1..Len(call) :
                 ( /\ call[i].key # "" /\ call[i].value # ""
                   /\ \A j \in (i + 1)..Len(call) :
                         call[j].key = call[i].key => call[j].value = "" )
                 => << call[i].key, call[i].value >> \in q
           /\ \A i \in 1..(Len(call) - 1) :
                 call[i].key # call[i + 1].key
                 => buildUrl(client.baseUrl, GET_USERS_URL_SUFFIX, swap(i)).url.query = q

\* Three options on one key, the last of them empty: the second value is
\* the one on the wire.
C27_Witness ==
    /\ pc = "returned"
    /\ call = << queryParam("a", "x"), queryParam("a", "y"), queryParam("a", "") >>
    /\ result.url.query = { << "a", "y" >> }

----------------------------------------------------------------------------
(* One option applied by GetUsers or GetChannelMessages *)

MaxPageSize == 120
OptionCalls ==
    [ op : { "GetUsers" }, option : { "GetUsersOption_PageSize", "GetUsersOption_Page" },
      arg : 0..MaxPageSize ]
    \cup [ op : { "GetChannelMessages" },
           option : { "GetChannelMessages_PageSize", "GetChannelMessages_Page" },
           arg : 0..MaxPageSize ]
    \cup [ op : { "GetUsers" }, option : { "GetUsersOption_ExcludeSelf" }, arg : BOOLEAN ]
    \cup [ op : { "GetUsers" },
           option : { "GetUsersOption_ExcludeFriends", "GetUsersOption_UsernameFilter" },
           arg : { "", "true", "m1" } ]
    \cup [ op : { "GetChannelMessages" }, option : { "GetChannelMessages_BeforeMessage" },
           arg : { "", "m1" } ]

\* The option a caller built, as the queryParam it appends to opts.values.
optionParam(c) ==
    CASE c.option = "GetUsersOption_ExcludeSelf" -> GetUsersOption_ExcludeSelf(c.arg)
      [] c.option = "GetUsersOption_ExcludeFriends" -> GetUsersOption_ExcludeFriends(c.arg)
      [] c.option = "GetUsersOption_UsernameFilter" -> GetUsersOption_UsernameFilter(c.arg)
      [] c.option = "GetUsersOption_Page" -> GetUsersOption_Page(c.arg)
      [] c.option = "GetUsersOption_PageSize" -> GetUsersOption_PageSize(c.arg)
      [] c.option = "GetChannelMessages_BeforeMessage" -> GetChannelMessages_BeforeMessage(c.arg)
      [] c.option = "GetChannelMessages_Page" -> GetChannelMessages_Page(c.arg)
      [] c.option = "GetChannelMessages_PageSize" -> GetChannelMessages_PageSize(c.arg)

InitOption ==
    /\ client = NewBroChatClient("http.Client", "http://localhost:8080")
    /\ pc = "idle"
    /\ call \in OptionCalls
    /\ res = NoResponse
    /\ result = [ err |-> FALSE, url |-> EmptyUrl ]
    /\ errv = "uncalled"
    /\ requests = 0
    /\ bodyReads = 0

\* The method up to the url it requests: the option applied to the empty
\* opts, then buildUrl.
Option_Call ==
    /\ pc = "idle"
    /\ result' = buildUrl(client.baseUrl,
                          IF call.op = "GetUsers" THEN GET_USERS_URL_SUFFIX
                          ELSE stringsReplace1(GET_CHANNEL_MESSAGES_URL_SUFFIX,
                                               ":channelId", "c1"),
                          << optionParam(call) >>)
    /\ pc' = "returned"
    /\ UNCHANGED << client, call, res, errv, requests, bodyReads >>

NextOption == Option_Call

SpecOption == InitOption /\ [][NextOption]_vars

\* The decimal numeral of a natural number.
RECURSIVE Decimal(_)
Decimal(n) ==
    LET digit == << "0", "1", "2", "3", "4", "5", "6", "7", "8", "9" >>
    IN IF n < 10 THEN digit[n + 1] ELSE Decimal(n \div 10) \o digit[(n % 10) + 1]

C25_ExcludeFriendsKey ==
    ( /\ pc = "returned"
      /\ call.option = "GetUsersOption_ExcludeFriends"
      /\ call.arg # "" )
    => /\ << "exclude-friends", call.arg >> \in result.url.query
       /\ \A kv \in result.url.query : kv[1] # "before-msg"

----------------------------------------------------------------------------
(* The feed envelope: FeedMessage and NewFeedMessageJSON *)

FEED_MESSAGE_TYPE_CHAT_MESSAGE_REQUEST == "brochat:feed_message_type:chat_message_request"
FEED_MESSAGE_TYPE_CHAT_NOTIFICATION == "brochat:feed_message_type:chat_notification"

\* The eleven defined feed message types.
FeedMessageTypes ==
    { FEED_MESSAGE_TYPE_CHAT_MESSAGE_REQUEST,
      "brochat:feed_message_type:set_active_channel_request",
      "brochat:feed_message_type:user_online_event",
      "brochat:feed_message_type:user_offline_event",
      FEED_MESSAGE_TYPE_CHAT_NOTIFICATION,
      "brochat:feed_message_type:chat_message",
      "brochat:feed_message_type:friend_request_recieved",
      "brochat:feed_message_type:friend_request_accepted",
      "brochat:feed_message_type:room_created",
      "brochat:feed_message_type:user_joined_room",
      "brochat:feed_message_type:user_profile_updated" }

\* A struct type with its fields in declaration order, the order
\* json.Marshal writes them in; a channel type, which json.Marshal rejects.
TStructIn(fs, order) == [ k |-> "struct", fields |-> fs, order |-> order ]
TChan == [ k |-> "chan" ]

\* The payload structs of feed.go.
\* (SetActiveChannelRequest and ChannelUpdatedEvent have the fields of
\* ChatNotification.)
ChatNotification ==
    TStructIn([ ChannelId |-> [ key |-> "channel_id", typ |-> TString ] ], << "ChannelId" >>)
ChatMessageRequest ==
    TStructIn([ ChannelId |-> [ key |-> "channel_id", typ |-> TString ],
                Content   |-> [ key |-> "content", typ |-> TString ] ],
              << "ChannelId", "Content" >>)
ChatMacroRequest ==
    TStructIn([ ChannelId |-> [ key |-> "channel_id", typ |-> TString ],
                Type      |-> [ key |-> "type", typ |-> TString ],
                Arguments |-> [ key |-> "arguments", typ |-> TSlice(TString) ] ],
              << "ChannelId", "Type", "Arguments" >>)
UserProfileUpdatedEvent ==
    TStructIn([ UpdateCode |-> [ key |-> "reason", typ |-> TUint8 ] ], << "UpdateCode" >>)
\* A payload json.Marshal cannot represent: a struct with a channel in it.
UnserializablePayload ==
    TStructIn([ ChannelId |-> [ key |-> "channel_id", typ |-> TString ],
                Done      |-> [ key |-> "done", typ |-> TChan ] ],
              << "ChannelId", "Done" >>)

\* json.Marshal of a Go value v of type typ: [err, json].  A channel is an
\* UnsupportedTypeError, and so is every value that holds one.  (A nil
\* slice is written null and an empty one []; both are <<>> here and both
\* texts decode to <<>>.)
RECURSIVE jsonMarshal(_, _)
jsonMarshal(typ, v) ==
    CASE typ.k = "string" -> [ err |-> FALSE, json |-> JStr(v) ]
      [] typ.k = "uint8" -> [ err |-> FALSE, json |-> JNum(v) ]
      [] typ.k = "chan" -> [ err |-> TRUE, json |-> JNull ]
      [] typ.k = "slice" ->
           LET es == [ i \in 1..Len(v) |-> jsonMarshal(typ.elem, v[i]) ]
           IN [ err |-> \E i \in 1..Len(v) : es[i].err,
                json |-> JArr([ i \in 1..Len(v) |-> es[i].json ]) ]
      [] typ.k = "struct" ->
           LET ms == [ i \in 1..Len(typ.order) |->
                         jsonMarshal(typ.fields[typ.order[i]].typ, v[typ.order[i]]) ]
           IN [ err |-> \E i \in 1..Len(typ.order) : ms[i].err,
                json |-> JObj([ i \in 1..Len(typ.order) |->
                                  << typ.fields[typ.order[i]].key, ms[i].json >> ]) ]

\* The nil *FeedMessage.
NilFeedMessage == [ ptr |-> "nil" ]

\* Mutant: on a marshal error the envelope is returned half filled.
Mut_NewFeedMessageJSON_PartialOnError(messageType, content) ==
    LET m == jsonMarshal(content.typ, content.val)
    IN IF m.err
       THEN [ msg |-> [ Type |-> messageType, ContentType |-> "", Content |-> JNull ],
              err |-> "json: unsupported type" ]
       ELSE [ msg |-> [ Type |-> messageType, ContentType |-> "application/json",
                        Content |-> m.json ],
              err |-> NoErr ]

\* Mutant: the envelope's content is the encoding of a nil value, not of
\* the payload.
Mut_NewFeedMessageJSON_NilContent(messageType, content) ==
    LET m == jsonMarshal(content.typ, content.val)
    IN IF m.err
       THEN [ msg |-> NilFeedMessage, err |-> "json: unsupported type" ]
       ELSE [ msg |-> [ Type |-> messageType, ContentType |-> "application/json",
                        Content |-> JNull ],
              err |-> NoErr ]

\* NewFeedMessageJSON: the pair (*FeedMessage, error); the content bytes
\* are held as the JSON value they spell.
NewFeedMessageJSON(messageType, content) ==
    LET m == jsonMarshal(content.typ, content.val)
    IN IF m.err
       THEN [ msg |-> NilFeedMessage, err |-> "json: unsupported type" ]
       ELSE [ msg |-> [ Type |-> messageType, ContentType |-> "application/json",
                        Content |-> m.json ],
              err |-> NoErr ]

\* Payloads handed to NewFeedMessageJSON (content interface{}): a Go value
\* with its type.
FeedPayloads ==
    [ typ : { ChatNotification }, val : [ ChannelId : { "", "c1", "c2" } ] ]
    \cup [ typ : { ChatMessageRequest },
           val : [ ChannelId : { "c1" }, Content : { "", "hi", "/roll 2d6" } ] ]
    \cup [ typ : { ChatMacroRequest },
           val : [ ChannelId : { "c1" }, Type : { MACRO_TYPE_ROLL, MACRO_TYPE_FLIP },
                   Arguments : { << >>, << "2d6" >>, << "a", "" >> } ] ]
    \cup [ typ : { UserProfileUpdatedEvent }, val : [ UpdateCode : { 0, 1, 2, 255 } ] ]
    \cup [ typ : { UnserializablePayload },
           val : [ ChannelId : { "c1" }, Done : { "chan" } ] ]
    \cup [ typ : { TChan }, val : { "chan" } ]

InitFeed ==
    /\ client = NewBroChatClient("http.Client", "http://localhost:8080")
    /\ pc = "idle"
    \* FeedMessageType is a string type: a caller can pass any string.
    /\ call \in [ messageType : FeedMessageTypes
                                  \cup { "", "brochat:feed_message_type:later_version" },
                  content : FeedPayloads ]
    /\ res = NoResponse
    /\ result = [ msg |-> NilFeedMessage, err |-> NoErr ]
    /\ errv = "uncalled"
    /\ requests = 0
    /\ bodyReads = 0

NewFeedMessageJSON_Call ==
    /\ pc = "idle"
    /\ result' = NewFeedMessageJSON(call.messageType, call.content)
    /\ pc' = "returned"
    /\ UNCHANGED << client, call, res, errv, requests, bodyReads >>

\* The receiver of an envelope: it reads the type tag and unmarshals the
\* content, as the content type tells, into a value of the payload's type.
Feed_Decode ==
    /\ pc = "returned"
    /\ result.err = NoErr
    /\ result.msg.ContentType = "application/json"
    /\ LET d == Unmarshal(call.content.typ, result.msg.Content, Zero(call.content.typ))
       IN res' = [ err |-> IF d.err THEN "malformed payload" ELSE NoErr,
                   Type |-> result.msg.Type, payload |-> d.val ]
    /\ pc' = "decoded"
    /\ UNCHANGED << client, call, result, errv, requests, bodyReads >>

NextFeed == NewFeedMessageJSON_Call \/ Feed_Decode

SpecFeed == InitFeed /\ [][NextFeed]_vars

\* A Go type with a channel in it, and a JSON value j that spells the
\* scalar or string-list v of type typ.
HoldsChan(typ) ==
    \/ typ.k = "chan"
    \/ typ.k = "struct" /\ \E f \in DOMAIN typ.fields : typ.fields[f].typ.k = "chan"
Spells(j, typ, v) ==
    CASE typ.k = "string" -> j = JStr(v)
      [] typ.k = "uint8" -> j = JNum(v)
      [] typ.k = "slice" ->
           /\ j.t = "arr" /\ Len(j.arr) = Len(v)
           /\ \A i \in 1..Len(v) : j.arr[i] = JStr(v[i])
      [] OTHER -> FALSE

\* C22: NewFeedMessageJSON returns either an envelope whose type is the
\* given type (a defined tag or any other), whose content type is
\* "application/json" and whose content is the JSON object of the
\* payload's fields under their json names, with no error; or, for a
\* payload that cannot be serialized, an error and no envelope at all.
C22_EnvelopeOrError ==
    pc \in { "returned", "decoded" } =>
        LET typ == call.content.typ
            v == call.content.val
        IN IF HoldsChan(typ)
           THEN result.err # NoErr /\ result.msg = NilFeedMessage
           ELSE /\ result.err = NoErr
                /\ result.msg # NilFeedMessage
                /\ result.msg.Type = call.messageType
                /\ result.msg.ContentType = "application/json"
                /\ result.msg.Content.t = "obj"
                /\ Len(result.msg.Content.obj) = Cardinality(DOMAIN typ.fields)
                /\ \A f \in DOMAIN typ.fields :
                      /\ HasMember(result.msg.Content, typ.fields[f].key)
                      /\ Spells(Member(result.msg.Content, typ.fields[f].key),
                                typ.fields[f].typ, v[f])

\* A payload with a channel in it under a defined tag: an error and no
\* envelope.
C22_Witness ==
    /\ pc = "returned"
    /\ call.messageType = FEED_MESSAGE_TYPE_CHAT_NOTIFICATION
    /\ call.content.typ = UnserializablePayload
    /\ result.err # NoErr
    /\ result.msg = NilFeedMessage

----------------------------------------------------------------------------
(* Success codes of the operations *)

\* C26: a result carries a code of the success range (128 and above) only
\* if the transport answered and the status was the one the operation
\* expects; with any other status (another 2xx included) the result is a
\* failure, whatever the body holds, also a body that embeds a code of 128
\* or more.
C26_SuccessOnlyOnExpectedStatus ==
    (pc = "returned" /\ result.ResponseCode >= BROCHAT_RESPONSE_CODE_SUCCESS) =>
        /\ requests = 1
        /\ res.err = NoErr
        /\ res.StatusCode = ExpectedStatus(call.op)

====
